---- MODULE Spec2Model ----
(***************************************************************************)
(* Geographic RTMP router (Cloudflare Worker).                             *)
(*                                                                         *)
(* Two handler variants live in the repository: the logging/timing one     *)
(* (src/unnamed/part_000) and the plain one (src/src/index.js).  Both are  *)
(* modelled; an invocation carries the variant it runs.                    *)
(*                                                                         *)
(* JavaScript strings are sequences of one-character strings, so that      *)
(* split('.'), URL parsing and template concatenation are computed and     *)
(* not assumed.  A JavaScript value that may be undefined is a tagged      *)
(* record (Undefined, Str(s), Fn(name), ObjectPrototype).                  *)
(***************************************************************************)
EXTENDS Integers, Sequences, FiniteSets, TLC

VARIABLES
    RTMP_SERVERS,         \* region id -> hostname          (module-level const object)
    CONTINENT_TO_REGION,  \* continent code -> region id    (module-level const object)
    COUNTRY_OVERRIDES,    \* country code -> region id      (module-level const object)
    pc,                   \* invocation -> "idle" | "received" | "awaiting" | "done"
    variant,              \* invocation -> "logging" | "plain"
    request,              \* invocation -> the inbound request {url, cf}
    upstream,             \* invocation -> what the origin does if the request is forwarded
    closestServer,        \* invocation -> handleRequest's local closestServer
    forwarded,            \* invocation -> the request handed to the global fetch()
    promise,              \* invocation -> the promise handleRequest returned
    console,              \* invocation -> the log records it emitted, in order
    result                \* invocation -> what the caller of the entry point got

vars == <<RTMP_SERVERS, CONTINENT_TO_REGION, COUNTRY_OVERRIDES, pc, variant,
          request, upstream, closestServer, forwarded, promise, console, result>>

tables == <<RTMP_SERVERS, CONTINENT_TO_REGION, COUNTRY_OVERRIDES>>

(***************************************************************************)
(* Bound of the model.                                                     *)
(***************************************************************************)
\* number of invocations in flight at once in SpecConcurrent
MaxRequests == 2

(***************************************************************************)
(* String literals of the source.                                          *)
(***************************************************************************)
europe == <<"e", "u", "r", "o", "p", "e">>
americas == <<"a", "m", "e", "r", "i", "c", "a", "s">>
asia == <<"a", "s", "i", "a">>
default == <<"d", "e", "f", "a", "u", "l", "t">>
eu_streammy_io == <<"e", "u", ".", "s", "t", "r", "e", "a", "m", "m", "y", ".", "i", "o">>
EU == <<"E", "U">>
NA == <<"N", "A">>
SA == <<"S", "A">>
AS == <<"A", "S">>
OC == <<"O", "C">>
AF == <<"A", "F">>
AN == <<"A", "N">>
RU == <<"R", "U">>
TR == <<"T", "R">>
EG == <<"E", "G">>
AU == <<"A", "U">>
NZ == <<"N", "Z">>
live_streammy_io == <<"l", "i", "v", "e", ".", "s", "t", "r", "e", "a", "m", "m", "y", ".", "i", "o">>
unknown == <<"u", "n", "k", "n", "o", "w", "n">>
https_scheme == <<"h", "t", "t", "p", "s", ":", "/", "/">>
Location == <<"L", "o", "c", "a", "t", "i", "o", "n">>
Cache_Control == <<"C", "a", "c", "h", "e", "-", "C", "o", "n", "t", "r", "o", "l">>
no_cache == <<"n", "o", "-", "c", "a", "c", "h", "e">>
X_Streammy_Region == <<"X", "-", "S", "t", "r", "e", "a", "m", "m", "y", "-", "R", "e", "g", "i", "o", "n">>
X_Streammy_Country == <<"X", "-", "S", "t", "r", "e", "a", "m", "m", "y", "-", "C", "o", "u", "n", "t", "r", "y">>
X_Streammy_Continent == <<"X", "-", "S", "t", "r", "e", "a", "m", "m", "y", "-", "C", "o", "n", "t", "i", "n", "e", "n", "t">>
Content_Type == <<"C", "o", "n", "t", "e", "n", "t", "-", "T", "y", "p", "e">>
text_plain == <<"t", "e", "x", "t", "/", "p", "l", "a", "i", "n">>
InternalServerError == <<"I", "n", "t", "e", "r", "n", "a", "l", " ", "S", "e", "r", "v", "e", "r", " ", "E", "r", "r", "o", "r", ":", " ">>

(***************************************************************************)
(* Strings of the JavaScript runtime the code meets.                       *)
(***************************************************************************)
InvalidURLMessage == <<"I", "n", "v", "a", "l", "i", "d", " ", "U", "R", "L">>
HeadersAppend == <<"H", "e", "a", "d", "e", "r", "s", ".", "a", "p", "p", "e", "n", "d", ":", " ", "\"">>
IsAnInvalidHeaderValue == <<"\"", " ", "i", "s", " ", "a", "n", " ", "i", "n", "v", "a", "l", "i", "d", " ", "h", "e", "a", "d", "e", "r", " ", "v", "a", "l", "u", "e", ".">>
SplitOfUndefinedMessage == <<"C", "a", "n", "n", "o", "t", " ", "r", "e", "a", "d", " ", "p", "r", "o", "p", "e", "r", "t", "i", "e", "s", " ", "o", "f", " ", "u", "n", "d", "e", "f", "i", "n", "e", "d", " ", "(", "r", "e", "a", "d", "i", "n", "g", " ", "'", "s", "p", "l", "i", "t", "'", ")">>
SplitNotAFunctionMessage == <<"c", "l", "o", "s", "e", "s", "t", "S", "e", "r", "v", "e", "r", ".", "s", "p", "l", "i", "t", " ", "i", "s", " ", "n", "o", "t", " ", "a", " ", "f", "u", "n", "c", "t", "i", "o", "n">>
k_constructor == <<"c", "o", "n", "s", "t", "r", "u", "c", "t", "o", "r">>
k_toString == <<"t", "o", "S", "t", "r", "i", "n", "g">>
k_valueOf == <<"v", "a", "l", "u", "e", "O", "f">>
k_hasOwnProperty == <<"h", "a", "s", "O", "w", "n", "P", "r", "o", "p", "e", "r", "t", "y">>
k_isPrototypeOf == <<"i", "s", "P", "r", "o", "t", "o", "t", "y", "p", "e", "O", "f">>
k_propertyIsEnumerable == <<"p", "r", "o", "p", "e", "r", "t", "y", "I", "s", "E", "n", "u", "m", "e", "r", "a", "b", "l", "e">>
k_toLocaleString == <<"t", "o", "L", "o", "c", "a", "l", "e", "S", "t", "r", "i", "n", "g">>
k_proto == <<"_", "_", "p", "r", "o", "t", "o", "_", "_">>
k_defineGetter == <<"_", "_", "d", "e", "f", "i", "n", "e", "G", "e", "t", "t", "e", "r", "_", "_">>
k_defineSetter == <<"_", "_", "d", "e", "f", "i", "n", "e", "S", "e", "t", "t", "e", "r", "_", "_">>
k_lookupGetter == <<"_", "_", "l", "o", "o", "k", "u", "p", "G", "e", "t", "t", "e", "r", "_", "_">>
k_lookupSetter == <<"_", "_", "l", "o", "o", "k", "u", "p", "S", "e", "t", "t", "e", "r", "_", "_">>
k_Object == <<"O", "b", "j", "e", "c", "t">>
function_prefix == <<"f", "u", "n", "c", "t", "i", "o", "n", " ">>
native_code_suffix == <<"(", ")", " ", "{", " ", "[", "n", "a", "t", "i", "v", "e", " ", "c", "o", "d", "e", "]", " ", "}">>
object_Object == <<"[", "o", "b", "j", "e", "c", "t", " ", "O", "b", "j", "e", "c", "t", "]">>
s_undefined == <<"u", "n", "d", "e", "f", "i", "n", "e", "d">>
UpperAlpha == <<"A", "B", "C", "D", "E", "F", "G", "H", "I", "J", "K", "L", "M", "N", "O", "P", "Q", "R", "S", "T", "U", "V", "W", "X", "Y", "Z">>
LowerAlpha == <<"a", "b", "c", "d", "e", "f", "g", "h", "i", "j", "k", "l", "m", "n", "o", "p", "q", "r", "s", "t", "u", "v", "w", "x", "y", "z">>

(***************************************************************************)
(* JavaScript values and the language semantics the handler relies on.     *)
(***************************************************************************)
Undefined == [type |-> "undefined"]

Null == [type |-> "null"]

Str(s) == [type |-> "string", value |-> s]

Fn(name) == [type |-> "function", name |-> name]

\* Object.prototype itself: what the inherited accessor __proto__ yields on
\* a plain object literal.
ObjectPrototype == [type |-> "object", class |-> "Object.prototype"]

\* The property names every plain object literal inherits from
\* Object.prototype.
ObjectPrototypeKeys ==
    {k_constructor, k_toString, k_valueOf, k_hasOwnProperty, k_isPrototypeOf,
     k_propertyIsEnumerable, k_toLocaleString, k_proto, k_defineGetter,
     k_defineSetter, k_lookupGetter, k_lookupSetter}

\* ToBoolean: undefined, null and the empty string are falsy; objects,
\* functions and non-empty strings are truthy.
Truthy(v) ==
    CASE v.type = "undefined" -> FALSE
      [] v.type = "null"      -> FALSE
      [] v.type = "string"    -> v.value # <<>>
      [] OTHER                -> TRUE

\* JSToString of a value, as a template literal or a property key applies it.
JSToString(v) ==
    CASE v.type = "string"    -> v.value
      [] v.type = "undefined" -> s_undefined
      [] v.type = "function"  -> function_prefix \o v.name \o native_code_suffix
      [] OTHER                -> object_Object

\* obj[key] on a plain object literal: an own property, else a property
\* inherited from Object.prototype, else undefined.  obj is the TLA+ function
\* of the own properties; key is any JavaScript value.
Get(obj, key) ==
    LET k == JSToString(key) IN
    IF k \in DOMAIN obj THEN Str(obj[k])
    ELSE IF k = k_constructor THEN Fn(k_Object)
    ELSE IF k = k_proto THEN ObjectPrototype
    ELSE IF k \in ObjectPrototypeKeys THEN Fn(k)
    ELSE Undefined

\* cf.field, and request.cf?.field: cf is undefined or an object carrying
\* both fields (an absent field is held as Undefined).
Field(cf, f) == IF cf.type = "object" THEN cf[f] ELSE Undefined

\* a || b
Or(a, b) == IF Truthy(a) THEN a ELSE b

\* s.indexOf(c) + 1 for a one-character c; 0 when c does not occur.
IndexOf(s, c) ==
    IF \E i \in 1..Len(s) : s[i] = c
    THEN CHOOSE i \in 1..Len(s) : s[i] = c /\ \A j \in 1..(i - 1) : s[j] # c
    ELSE 0

\* The element of a one-element set.  Only({e(x) : x \in {v}}) is e with x
\* standing for the value of v, which is computed once, before e reads it.
Only(S) == CHOOSE r \in S : TRUE

\* String.prototype.split with a one-character separator.
RECURSIVE Split(_, _)
Split(s, c) ==
    LET i == IndexOf(s, c) IN
    IF i = 0 THEN <<s>>
    ELSE <<SubSeq(s, 1, i - 1)>>
         \o Only({Split(t, c) : t \in {SubSeq(s, i + 1, Len(s))}})

StartsWith(s, p) == Len(s) >= Len(p) /\ SubSeq(s, 1, Len(p)) = p

\* ASCII lower-casing, which the URL parser applies to the host.
ToLowerChar(c) ==
    LET i == IndexOf(UpperAlpha, c) IN IF i = 0 THEN c ELSE LowerAlpha[i]

ToLower(s) == [i \in 1..Len(s) |-> ToLowerChar(s[i])]

(***************************************************************************)
(* new URL(u), after the URL Standard, for the strings a request can carry *)
(***************************************************************************)
\* the characters U+0020 to U+007E in code order: AsciiPrintable[n] has code
\* n + 31 ("U+0060" stands for the grave accent, which a string cannot hold)
AsciiPrintable == <<" ", "!", "\"", "#", "$", "%", "&", "'", "(", ")", "*", "+", ",", "-", ".", "/", "0", "1", "2", "3", "4", "5", "6", "7", "8", "9", ":", ";", "<", "=", ">", "?", "@", "A", "B", "C", "D", "E", "F", "G", "H", "I", "J", "K", "L", "M", "N", "O", "P", "Q", "R", "S", "T", "U", "V", "W", "X", "Y", "Z", "[", "\\", "]", "^", "_", "U+0060", "a", "b", "c", "d", "e", "f", "g", "h", "i", "j", "k", "l", "m", "n", "o", "p", "q", "r", "s", "t", "u", "v", "w", "x", "y", "z", "{", "|", "}", "~">>

DigitChars == <<"0", "1", "2", "3", "4", "5", "6", "7", "8", "9">>

HexUpper == <<"0", "1", "2", "3", "4", "5", "6", "7", "8", "9", "A", "B", "C", "D", "E", "F">>

HexLower == <<"0", "1", "2", "3", "4", "5", "6", "7", "8", "9", "a", "b", "c", "d", "e", "f">>

\* C0 control or space, as far as the model's alphabet has them
C0ControlOrSpace == {" ", "\t", "\n", "\r"}

AsciiTabOrNewline == {"\t", "\n", "\r"}

\* The characters ParseURL is defined on: tab, LF, CR and printable ASCII
\* except "^" (whose escaping in a path differs between versions of the URL
\* Standard) and the grave accent.
UrlAlphabet == ({AsciiPrintable[n] : n \in 1..Len(AsciiPrintable)} \ {"^", "U+0060"})
               \cup AsciiTabOrNewline

SpecialSchemes == {<<"h", "t", "t", "p">>, <<"h", "t", "t", "p", "s">>, <<"w", "s">>, <<"w", "s", "s">>, <<"f", "t", "p">>}

\* The forbidden domain code points among the printable ones.  The host
\* parser applies them to the percent-decoded host, where "^" can stand
\* (from "%5E") although no input holds it.
ForbiddenDomainChars ==
    {" ", "\t", "\n", "\r", "#", "/", ":", "<", ">", "?", "@", "[", "\\", "]",
     "^", "|", "%"}

\* the path percent-encode set and the special-query percent-encode set,
\* within the alphabet
PathEncodeSet == {" ", "\"", "#", "<", ">", "?", "{", "}"}

SpecialQueryEncodeSet == {" ", "\"", "#", "<", ">", "'"}

IsDigit(c) == \E n \in 1..Len(DigitChars) : DigitChars[n] = c

IsAlpha(c) == \E n \in 1..Len(UpperAlpha) : UpperAlpha[n] = c \/ LowerAlpha[n] = c

IsHex(c) == \E n \in 1..Len(HexUpper) : HexUpper[n] = c \/ HexLower[n] = c

\* the value of a hexadecimal digit
HexValue(c) ==
    (CHOOSE n \in 1..Len(HexUpper) : HexUpper[n] = c \/ HexLower[n] = c) - 1

\* s without the leading and trailing characters that are in set
Trim(s, set) ==
    LET keep == {n \in 1..Len(s) : s[n] \notin set} IN
    IF keep = {} THEN <<>>
    ELSE SubSeq(s, CHOOSE a \in keep : \A b \in keep : a <= b,
                   CHOOSE a \in keep : \A b \in keep : a >= b)

\* s without any character that is in set
Remove(s, set) == SelectSeq(s, LAMBDA c : c \notin set)

\* the first position of s holding a character of set; 0 when there is none
IndexOfAny(s, set) ==
    IF \E n \in 1..Len(s) : s[n] \in set
    THEN CHOOSE n \in 1..Len(s) : s[n] \in set /\ \A m \in 1..(n - 1) : s[m] \notin set
    ELSE 0

\* the last position of s holding c; 0 when there is none
LastIndexOf(s, c) ==
    IF \E n \in 1..Len(s) : s[n] = c
    THEN CHOOSE n \in 1..Len(s) : s[n] = c /\ \A m \in (n + 1)..Len(s) : s[m] # c
    ELSE 0

\* "%XX" for a printable character
PercentEncodeChar(c) ==
    LET code == IndexOf(AsciiPrintable, c) + 31
    IN  <<"%", HexUpper[(code \div 16) + 1], HexUpper[(code % 16) + 1]>>

\* UTF-8 percent-encode s using the given percent-encode set
RECURSIVE PercentEncode(_, _)
PercentEncode(s, set) ==
    IF s = <<>> THEN <<>>
    ELSE (IF Head(s) \in set THEN PercentEncodeChar(Head(s)) ELSE <<Head(s)>>)
         \o Only({PercentEncode(t, set) : t \in {Tail(s)}})

\* Percent-decode s into the byte values it stands for.
RECURSIVE PercentDecode(_)
PercentDecode(s) ==
    IF s = <<>> THEN <<>>
    ELSE IF Head(s) = "%" /\ Len(s) >= 3 /\ IsHex(s[2]) /\ IsHex(s[3])
    THEN <<16 * HexValue(s[2]) + HexValue(s[3])>>
         \o Only({PercentDecode(t) : t \in {SubSeq(s, 4, Len(s))}})
    ELSE <<IndexOf(AsciiPrintable, Head(s)) + 31>>
         \o Only({PercentDecode(t) : t \in {Tail(s)}})

\* left unspecified: the strings the model does not cover
Unmodelled(u) == CHOOSE x \in {} : x = u

\* a label the IPv4 parser takes for a number
IsNumberLabel(l) ==
    \/ l # <<>> /\ \A n \in 1..Len(l) : IsDigit(l[n])
    \/ /\ Len(l) >= 2 /\ l[1] = "0" /\ l[2] \in {"x", "X"}
       /\ \A n \in 3..Len(l) : IsHex(l[n])

\* the "ends in a number" checker
EndsInNumber(host) ==
    LET parts == Split(host, ".")
        kept  == IF parts[Len(parts)] = <<>> /\ Len(parts) > 1
                 THEN SubSeq(parts, 1, Len(parts) - 1) ELSE parts
    IN  IsNumberLabel(kept[Len(kept)])

\* The host parser, from the domain its input decodes to: refuse forbidden
\* code points.
ParseDomain(domain) ==
    IF \E n \in 1..Len(domain) : domain[n] \in ForbiddenDomainChars
    THEN [ok |-> FALSE]
    ELSE IF (\E n \in 1..Len(Split(domain, ".")) :
                StartsWith(Split(domain, ".")[n], <<"x", "n", "-", "-">>))
            \/ EndsInNumber(domain)
    THEN Unmodelled(domain)
    ELSE [ok |-> TRUE, host |-> domain]

\* The host parser, from the bytes its input percent-decodes to: lower-case
\* them (domain to ASCII on ASCII input).
ParseHostBytes(bytes) ==
    IF \E n \in 1..Len(bytes) : bytes[n] > 127 THEN Unmodelled(bytes)
    ELSE IF \E n \in 1..Len(bytes) : bytes[n] < 32 \/ bytes[n] = 127
    THEN [ok |-> FALSE]
    ELSE Only({ParseDomain(domain) :
                 domain \in {ToLower([n \in 1..Len(bytes) |-> AsciiPrintable[bytes[n] - 31]])}})

\* The host parser on the host of a special URL.  Left unspecified for an
\* IPv6 literal, a host that ends in a number (IPv4), an "xn--" label and a
\* percent-escape of a byte above 0x7F.
ParseHost(input) ==
    IF input[1] = "[" THEN Unmodelled(input)
    ELSE Only({ParseHostBytes(bytes) : bytes \in {PercentDecode(input)}})

\* the number a string of decimal digits writes
RECURSIVE DecimalValue(_)
DecimalValue(d) ==
    IF d = <<>> THEN 0
    ELSE 10 * Only({DecimalValue(t) : t \in {SubSeq(d, 1, Len(d) - 1)}})
         + IndexOf(DigitChars, d[Len(d)]) - 1

\* a port: decimal digits only, at most 65535
ValidPort(p) ==
    LET nonzero == IndexOfAny(p, {DigitChars[n] : n \in 2..Len(DigitChars)}) IN
    /\ \A n \in 1..Len(p) : IsDigit(p[n])
    /\ nonzero # 0 =>
          /\ Len(p) - nonzero + 1 <= 5
          /\ DecimalValue(SubSeq(p, nonzero, Len(p))) <= 65535

IsSingleDot(seg) == ToLower(seg) \in {<<".">>, <<"%", "2", "e">>}

IsDoubleDot(seg) ==
    ToLower(seg) \in {<<".", ".">>, <<".", "%", "2", "e">>, <<"%", "2", "e", ".">>,
                      <<"%", "2", "e", "%", "2", "e">>}

\* The path state over the segments still to read, path being the segments
\* kept so far: a double-dot segment drops the last kept one, a single-dot
\* segment is skipped, and either leaves an empty segment when it is the last.
RECURSIVE PathSegments(_, _)
PathSegments(segs, path) ==
    IF segs = <<>> THEN path
    ELSE LET seg  == Head(segs)
             last == Len(segs) = 1
             next ==
                IF IsDoubleDot(seg)
                THEN (IF path = <<>> THEN path ELSE SubSeq(path, 1, Len(path) - 1))
                     \o (IF last THEN <<<<>>>> ELSE <<>>)
                ELSE IF IsSingleDot(seg)
                THEN path \o (IF last THEN <<<<>>>> ELSE <<>>)
                ELSE Append(path, PercentEncode(seg, PathEncodeSet))
         IN  Only({PathSegments(Tail(segs), kept) : kept \in {next}})

\* "/" before every segment
RECURSIVE SerializePath(_)
SerializePath(path) ==
    IF path = <<>> THEN <<>> ELSE <<"/">> \o Head(path) \o SerializePath(Tail(path))

\* path start, path and query states, on what follows the authority
PathState(host, tail) ==
    LET q       == IndexOf(tail, "?")
        rawPath == IF q = 0 THEN tail ELSE SubSeq(tail, 1, q - 1)
        slashed == [n \in 1..Len(rawPath) |-> IF rawPath[n] = "\\" THEN "/" ELSE rawPath[n]]
        query   == IF q = 0 THEN <<>> ELSE SubSeq(tail, q + 1, Len(tail))
    IN  [ok       |-> TRUE,
         hostname |-> host,
         pathname |-> Only({SerializePath(PathSegments(segs, <<>>)) :
                              segs \in {Split(IF slashed # <<>> THEN Tail(slashed)
                                              ELSE slashed, "/")}}),
         search   |-> IF query = <<>> THEN <<>>
                      ELSE <<"?">> \o PercentEncode(query, SpecialQueryEncodeSet)]

\* host and port states, on the authority without its userinfo
HostState(hostport, tail) ==
    LET colon == IndexOf(hostport, ":")
        host  == IF colon = 0 THEN hostport ELSE SubSeq(hostport, 1, colon - 1)
        port  == IF colon = 0 THEN <<>> ELSE SubSeq(hostport, colon + 1, Len(hostport))
    IN  IF host = <<>> THEN [ok |-> FALSE]
        ELSE IF host[1] = "[" THEN Unmodelled(hostport)
        ELSE Only({IF ~parsed.ok \/ ~ValidPort(port) THEN [ok |-> FALSE]
                   ELSE PathState(parsed.host, tail) :
                   parsed \in {ParseHost(host)}})

\* authority state, on what follows the slashes: the authority ends at the
\* first "/", "\" or "?" and its userinfo at its last "@"
AuthorityState(rest) ==
    LET stop    == IndexOfAny(rest, {"/", "\\", "?"})
        authEnd == IF stop = 0 THEN Len(rest) + 1 ELSE stop
        auth    == SubSeq(rest, 1, authEnd - 1)
    IN  Only({HostState(hostport, tail) :
                 hostport \in {SubSeq(auth, LastIndexOf(auth, "@") + 1, Len(auth))},
                 tail \in {SubSeq(rest, authEnd, Len(rest))}})

\* special authority slashes and special authority ignore slashes states:
\* every "/" and "\" after the scheme is skipped
IgnoreSlashes(rest) ==
    LET first == IndexOfAny(rest, UrlAlphabet \ {"/", "\\"})
    IN  IF first = 0 THEN <<>> ELSE SubSeq(rest, first, Len(rest))

\* scheme start and scheme states, on the input without its fragment
SchemeState(input) ==
    LET colon == IndexOf(input, ":")
        hasScheme ==
            /\ colon > 1
            /\ IsAlpha(input[1])
            /\ \A n \in 2..(colon - 1) :
                  IsAlpha(input[n]) \/ IsDigit(input[n]) \/ input[n] \in {"+", "-", "."}
    IN  IF ~hasScheme THEN [ok |-> FALSE]
        ELSE IF ToLower(SubSeq(input, 1, colon - 1)) \notin SpecialSchemes
        THEN Unmodelled(input)
        ELSE Only({AuthorityState(rest) :
                      rest \in {IgnoreSlashes(SubSeq(input, colon + 1, Len(input)))}})

\* the input without its fragment
WithoutFragment(s) ==
    IF IndexOf(s, "#") = 0 THEN s ELSE SubSeq(s, 1, IndexOf(s, "#") - 1)

\* new URL(u) with no base, for u over UrlAlphabet whose scheme, if it has
\* one, is http, https, ws, wss or ftp in any case; for any other u the
\* result is left unspecified, as it is for the hosts ParseHost leaves out.
\* [ok |-> FALSE] is the TypeError the constructor throws.  hostname is the
\* serialized host, pathname the serialized path, search "" for a null or
\* empty query and "?" followed by the query otherwise.
ParseURL(u) ==
    IF \E n \in 1..Len(u) : u[n] \notin UrlAlphabet THEN Unmodelled(u)
    ELSE Only({SchemeState(input) :
                  input \in {WithoutFragment(stripped) :
                                stripped \in {Remove(Trim(u, C0ControlOrSpace),
                                                     AsciiTabOrNewline)}}})

TypeError(message) == [name |-> "TypeError", message |-> message]

(***************************************************************************)
(* The configuration tables as the module initialises them.                *)
(***************************************************************************)
RTMP_SERVERS_init ==
    (europe :> eu_streammy_io) @@ (americas :> eu_streammy_io) @@
    (asia :> eu_streammy_io) @@ (default :> eu_streammy_io)

CONTINENT_TO_REGION_init ==
    (EU :> europe) @@ (NA :> americas) @@ (SA :> americas) @@ (AS :> asia) @@
    (OC :> asia) @@ (AF :> europe) @@ (AN :> europe)

COUNTRY_OVERRIDES_init ==
    (RU :> europe) @@ (TR :> europe) @@ (EG :> europe) @@ (AU :> asia) @@
    (NZ :> asia)

(***************************************************************************)
(* determineClosestServer(request): the hostname for the request's         *)
(* geolocation descriptor, read from the three tables.                     *)
(***************************************************************************)
\* Mutant: the continent is looked up before the country override.
determineClosestServer_ContinentFirst(req) ==
    LET cf == req.cf IN
    IF ~Truthy(cf) THEN Get(RTMP_SERVERS, Str(default))
    ELSE IF Truthy(Field(cf, "continent"))
            /\ Truthy(Get(CONTINENT_TO_REGION, Field(cf, "continent")))
    THEN Get(RTMP_SERVERS, Get(CONTINENT_TO_REGION, Field(cf, "continent")))
    ELSE IF Truthy(Field(cf, "country"))
            /\ Truthy(Get(COUNTRY_OVERRIDES, Field(cf, "country")))
    THEN Get(RTMP_SERVERS, Get(COUNTRY_OVERRIDES, Field(cf, "country")))
    ELSE Get(RTMP_SERVERS, Str(default))

determineClosestServer(req) ==
    LET cf == req.cf IN
    IF ~Truthy(cf) THEN Get(RTMP_SERVERS, Str(default))
    ELSE IF Truthy(Field(cf, "country"))
            /\ Truthy(Get(COUNTRY_OVERRIDES, Field(cf, "country")))
    THEN LET region == Get(COUNTRY_OVERRIDES, Field(cf, "country"))
         IN  Get(RTMP_SERVERS, region)
    ELSE IF Truthy(Field(cf, "continent"))
            /\ Truthy(Get(CONTINENT_TO_REGION, Field(cf, "continent")))
    THEN LET region == Get(CONTINENT_TO_REGION, Field(cf, "continent"))
         IN  Get(RTMP_SERVERS, region)
    ELSE Get(RTMP_SERVERS, Str(default))

(***************************************************************************)
(* Pieces of handleRequest.                                                *)
(***************************************************************************)
\* logData: the fields the response headers and the decision records read.
\* timestamp, clientIP, userAgent and region only feed the log sink and are
\* left out; request.headers is the Headers object of a Request, so its
\* get() calls do not throw.
LogData(req, url) ==
    [url       |-> req.url,
     hostname  |-> url.hostname,
     country   |-> Or(Field(req.cf, "country"), Str(unknown)),
     continent |-> Or(Field(req.cf, "continent"), Str(unknown))]

\* Mutant: the last label of the hostname instead of the first.
ServerRegion_LastLabel(server) == Split(server, ".")[Len(Split(server, "."))]

\* closestServer.split('.')[0]
ServerRegion(server) == Split(server, ".")[1]

\* `https://${closestServer}${url.pathname}${url.search}`
TargetUrl(server, url) ==
    https_scheme \o JSToString(server) \o url.pathname \o url.search

\* HTTP whitespace, which a Headers object strips from both ends of a value
HttpWhitespace == {" ", "\t", "\n", "\r"}

HeaderValueNormalize(v) == Trim(v, HttpWhitespace)

\* A header value must hold no CR and no LF (nor NUL nor a character above
\* U+00FF, which the model's strings do not have).
IsValidHeaderValue(v) == \A n \in 1..Len(v) : v[n] \notin {"\n", "\r"}

\* the TypeError of Headers.append for a value it refuses
HeaderError(v) == TypeError(HeadersAppend \o v \o IsAnInvalidHeaderValue)

\* new Headers(init) for the name/value pairs of a headers literal, in its
\* order: each value is normalised and checked in turn and the first refused
\* one throws.  Header names are matched without regard to case and are kept
\* as the source writes them.
FillHeaders(pairs) ==
    LET value(n) == HeaderValueNormalize(pairs[n][2])
        refused  == {n \in 1..Len(pairs) : ~IsValidHeaderValue(value(n))}
    IN  IF refused # {}
        THEN [ok    |-> FALSE,
              error |-> HeaderError(value(CHOOSE n \in refused : \A m \in refused : n <= m))]
        ELSE [ok      |-> TRUE,
              headers |-> [name \in {pairs[n][1] : n \in 1..Len(pairs)} |->
                              value(CHOOSE n \in 1..Len(pairs) : pairs[n][1] = name)]]

\* new Response(null, {status, headers: init}).  [ok |-> TRUE, ...] is the
\* response, [ok |-> FALSE, ...] the throw.
NewResponse(status, init) ==
    Only({IF filled.ok
          THEN [ok       |-> TRUE,
                response |-> [status |-> status, headers |-> filled.headers,
                              body |-> Null]]
          ELSE filled :
          filled \in {FillHeaders(pairs) : pairs \in {init}}})

\* new Response(null, {status: 302, headers: {...}}) of the logging variant
RedirectResponse(server, url, logData) ==
    NewResponse(302,
        <<<<Location, TargetUrl(server, url)>>,
          <<Cache_Control, no_cache>>,
          <<X_Streammy_Region, ServerRegion(server.value)>>,
          <<X_Streammy_Country, JSToString(logData.country)>>,
          <<X_Streammy_Continent, JSToString(logData.continent)>>>>)

\* Mutant: the query string is dropped from Location.
RedirectResponsePlain_NoQuery(server, url) ==
    NewResponse(302,
        <<<<Location, https_scheme \o JSToString(server) \o url.pathname>>,
          <<Cache_Control, no_cache>>,
          <<X_Streammy_Region, ServerRegion(server.value)>>>>)

\* new Response(null, {status: 302, headers: {...}}) of the plain variant
RedirectResponsePlain(server, url) ==
    NewResponse(302,
        <<<<Location, TargetUrl(server, url)>>,
          <<Cache_Control, no_cache>>,
          <<X_Streammy_Region, ServerRegion(server.value)>>>>)

\* closestServer.split(...) on a value that is no string throws.
SplitError(server) ==
    IF server.type = "undefined" THEN TypeError(SplitOfUndefinedMessage)
    ELSE TypeError(SplitNotAFunctionMessage)

\* new Response(`Internal Server Error: ${error.message}`, {status: 500, ...})
ErrorResponse(error) ==
    [status  |-> 500,
     headers |-> (Content_Type :> text_plain),
     body    |-> Str(InternalServerError \o error.message)]

Fulfilled(v) == [state |-> "fulfilled", value |-> v]

Rejected(e) == [state |-> "rejected", reason |-> e]

\* the promise of the global fetch(request), not yet settled
Pending == [state |-> "pending"]

NoPromise == [state |-> "none"]

NoRequest == [none |-> TRUE]

NotAssigned == [type |-> "unassigned"]

NoResult == [kind |-> "none"]

NoUpstream == [kind |-> "none"]

(***************************************************************************)
(* The requests and origins the model draws from.                          *)
(***************************************************************************)
Variants == {"logging", "plain"}

\* country and continent codes no table holds
FR == <<"F", "R">>

ZZ == <<"Z", "Z">>

XX == <<"X", "X">>

\* a code with a space before it, and codes with a line break inside
FR_padded == <<" ">> \o FR

FR_broken == <<"F", "\n", "R">>

EU_broken == <<"E", "\r", "U">>

Countries ==
    {Undefined, Str(<<>>), Str(TR), Str(AU), Str(FR), Str(ZZ),
     Str(k_constructor), Str(k_proto), Str(unknown), Str(FR_padded),
     Str(FR_broken)}

Continents ==
    {Undefined, Str(<<>>), Str(EU), Str(AS), Str(OC), Str(XX),
     Str(k_toString), Str(EU_broken)}

GeoDescriptors ==
    {Undefined} \cup
    {[type |-> "object", country |-> c, continent |-> k] :
        c \in Countries, k \in Continents}

url_stream == https_scheme \o live_streammy_io \o
              <<"/", "s", "/", "a", "?", "t", "=", "1">>

http_scheme == <<"h", "t", "t", "p", ":", "/", "/">>

url_upper_port == http_scheme \o <<"L", "I", "V", "E">> \o
                  SubSeq(live_streammy_io, 5, Len(live_streammy_io)) \o
                  <<":", "8", "0">>

url_empty_query == https_scheme \o live_streammy_io \o <<"/", "s", "?">>

url_region == https_scheme \o eu_streammy_io \o <<"/", "s", "?", "t", "=", "1">>

url_trailing_dot == https_scheme \o live_streammy_io \o <<".", "/", "s">>

url_no_scheme == live_streammy_io \o <<"/", "s">>

\* " HTTPS:\\user@LIVE%2Estreammy.io:443/a/../b c?q='1'": leading space,
\* upper-case scheme, backslashes, userinfo, an escaped "." and capitals in
\* the host, a port, a dot segment, a space in the path, quotes in the query
url_unnormalised ==
    <<" ", "H", "T", "T", "P", "S", ":", "\\", "\\", "u", "s", "e", "r", "@", "L", "I", "V", "E", "%", "2", "E", "s", "t", "r", "e", "a", "m", "m", "y", ".", "i", "o", ":", "4", "4", "3", "/", "a", "/", ".", ".", "/", "b", " ", "c", "?", "q", "=", "'", "1", "'">>

\* "https:live.streammy.io/./s": no slashes after the scheme
url_no_slashes == <<"h", "t", "t", "p", "s", ":">> \o live_streammy_io \o
                  <<"/", ".", "/", "s">>

\* a port above 65535
url_bad_port == https_scheme \o live_streammy_io \o
                <<":", "9", "9", "9", "9", "9", "/", "s">>

\* "https://live.streammy.io%5E/s": the host decodes to a forbidden "^"
url_forbidden_host == https_scheme \o live_streammy_io \o
                      <<"%", "5", "E", "/", "s">>

URLs == {url_stream, url_upper_port, url_empty_query, url_region,
         url_trailing_dot, url_no_scheme, url_unnormalised, url_no_slashes,
         url_bad_port, url_forbidden_host}

Requests == [url : URLs, cf : GeoDescriptors]

\* ParseURL of each URL drawn, computed once
ParsedURLs == [u \in URLs |-> ParseURL(u)]

\* new URL(u)
NewURL(u) == IF u \in URLs THEN ParsedURLs[u] ELSE ParseURL(u)

NetworkErrorMessage == <<"N", "e", "t", "w", "o", "r", "k", " ", "l", "o", "s", "t">>

UpstreamResponses ==
    {[status |-> 200, headers |-> (Content_Type :> text_plain), body |-> Str(<<"o", "k">>)],
     [status |-> 302, headers |-> (Location :> url_region), body |-> Null],
     [status |-> 500, headers |-> (Content_Type :> text_plain), body |-> Str(<<"d", "o", "w", "n">>)]}

UpstreamBehaviours ==
    {[kind |-> "response", response |-> r] : r \in UpstreamResponses} \cup
    {[kind |-> "failure", error |-> TypeError(NetworkErrorMessage)]}

\* the requests SpecConcurrent interleaves, each with its origin's behaviour
ConcurrentInputs ==
    LET geo(c, k) == [type |-> "object", country |-> c, continent |-> k]
        ok        == [kind |-> "response",
                      response |-> [status |-> 200,
                                    headers |-> (Content_Type :> text_plain),
                                    body |-> Str(<<"o", "k">>)]]
        down      == [kind |-> "failure", error |-> TypeError(NetworkErrorMessage)]
    IN  {<<[url |-> url_stream, cf |-> Undefined], ok>>,
         <<[url |-> url_stream, cf |-> geo(Str(TR), Str(AS))], ok>>,
         <<[url |-> url_stream, cf |-> geo(Str(k_constructor), Str(EU))], ok>>,
         <<[url |-> url_region, cf |-> geo(Str(FR), Str(EU))], ok>>,
         <<[url |-> url_region, cf |-> geo(Str(FR), Str(EU))], down>>,
         <<[url |-> url_no_scheme, cf |-> Undefined], ok>>,
         <<[url |-> url_unnormalised, cf |-> geo(Str(FR_broken), Str(EU))], ok>>}

(***************************************************************************)
(* Actions.                                                                *)
(***************************************************************************)
Ids == DOMAIN pc

\* The platform hands one request to both variants, each with the same
\* origin behind it.
ReceivePair ==
    /\ \A i \in Ids : pc[i] = "idle"
    /\ \E req \in Requests, up \in UpstreamBehaviours :
        /\ request' = [i \in Ids |-> req]
        /\ upstream' = [i \in Ids |-> up]
    /\ pc' = [i \in Ids |-> "received"]
    /\ closestServer' = [i \in Ids |-> NotAssigned]
    /\ forwarded' = [i \in Ids |-> NoRequest]
    /\ promise' = [i \in Ids |-> NoPromise]
    /\ console' = [i \in Ids |-> <<>>]
    /\ result' = [i \in Ids |-> NoResult]
    /\ UNCHANGED <<tables, variant>>

\* The platform hands a request to one invocation while others are in
\* flight.
Receive(i) ==
    /\ pc[i] = "idle"
    /\ \E inp \in ConcurrentInputs, v \in Variants :
        /\ request' = [request EXCEPT ![i] = inp[1]]
        /\ upstream' = [upstream EXCEPT ![i] = inp[2]]
        /\ variant' = [variant EXCEPT ![i] = v]
    /\ pc' = [pc EXCEPT ![i] = "received"]
    /\ closestServer' = [closestServer EXCEPT ![i] = NotAssigned]
    /\ forwarded' = [forwarded EXCEPT ![i] = NoRequest]
    /\ promise' = [promise EXCEPT ![i] = NoPromise]
    /\ console' = [console EXCEPT ![i] = <<>>]
    /\ result' = [result EXCEPT ![i] = NoResult]
    /\ UNCHANGED tables

\* fetch's try block calls handleRequest (logging variant), which runs to
\* its return or throw without suspending; the entry point then awaits the
\* promise.
handleRequest(i) ==
    /\ pc[i] = "received"
    /\ variant[i] = "logging"
    /\ LET req == request[i]
           url == NewURL(req.url)
       IN  IF ~url.ok
           THEN /\ promise' = [promise EXCEPT ![i] = Rejected(TypeError(InvalidURLMessage))]
                /\ UNCHANGED <<console, closestServer, forwarded>>
           ELSE LET logData == LogData(req, url) IN
                IF url.hostname # live_streammy_io
                THEN /\ console' = [console EXCEPT ![i] =
                            Append(@, [level |-> "log", tag |-> "NON-TARGET",
                                       hostname |-> url.hostname, data |-> logData])]
                     /\ forwarded' = [forwarded EXCEPT ![i] = req]
                     /\ promise' = [promise EXCEPT ![i] = Pending]
                     /\ UNCHANGED closestServer
                ELSE LET server == determineClosestServer(req) IN
                     /\ closestServer' = [closestServer EXCEPT ![i] = server]
                     /\ UNCHANGED forwarded
                     /\ IF server.type # "string"
                        THEN /\ promise' = [promise EXCEPT ![i] = Rejected(SplitError(server))]
                             /\ UNCHANGED console
                        ELSE LET logged ==
                                   [url            |-> logData.url,
                                    hostname       |-> logData.hostname,
                                    country        |-> logData.country,
                                    continent      |-> logData.continent,
                                    selectedServer |-> server,
                                    serverRegion   |-> ServerRegion(server.value)]
                             IN
                             /\ console' = [console EXCEPT ![i] =
                                    Append(@, [level |-> "log", tag |-> "GEO-ROUTING",
                                               server |-> server, data |-> logged])]
                             /\ LET made == RedirectResponse(server, url, logData) IN
                                promise' = [promise EXCEPT ![i] =
                                    IF made.ok THEN Fulfilled(made.response)
                                    ELSE Rejected(made.error)]
    /\ pc' = [pc EXCEPT ![i] = "awaiting"]
    /\ UNCHANGED <<tables, variant, request, upstream, result>>

\* fetch of the plain variant calls handleRequest and returns its promise.
handleRequestPlain(i) ==
    /\ pc[i] = "received"
    /\ variant[i] = "plain"
    /\ LET req == request[i]
           url == NewURL(req.url)
       IN  IF ~url.ok
           THEN /\ promise' = [promise EXCEPT ![i] = Rejected(TypeError(InvalidURLMessage))]
                /\ UNCHANGED <<closestServer, forwarded>>
           ELSE IF url.hostname # live_streammy_io
                THEN /\ forwarded' = [forwarded EXCEPT ![i] = req]
                     /\ promise' = [promise EXCEPT ![i] = Pending]
                     /\ UNCHANGED closestServer
                ELSE LET server == determineClosestServer(req) IN
                     /\ closestServer' = [closestServer EXCEPT ![i] = server]
                     /\ UNCHANGED forwarded
                     /\ promise' = [promise EXCEPT ![i] =
                            IF server.type # "string"
                            THEN Rejected(SplitError(server))
                            ELSE IF RedirectResponsePlain(server, url).ok
                            THEN Fulfilled(RedirectResponsePlain(server, url).response)
                            ELSE Rejected(RedirectResponsePlain(server, url).error)]
    /\ pc' = [pc EXCEPT ![i] = "awaiting"]
    /\ UNCHANGED <<tables, variant, request, upstream, console, result>>

\* The origin answers the forwarded request, or the connection fails: the
\* promise of the global fetch(request) settles.
UpstreamSettle(i) ==
    /\ pc[i] = "awaiting"
    /\ promise[i] = Pending
    /\ promise' = [promise EXCEPT ![i] =
            IF upstream[i].kind = "response"
            THEN Fulfilled(upstream[i].response)
            ELSE Rejected(upstream[i].error)]
    /\ UNCHANGED <<tables, pc, variant, request, upstream, closestServer,
                   forwarded, console, result>>

\* Mutant: every response leaving the entry point is stamped no-cache.
fetchReturn_NoCache(i) ==
    /\ pc[i] = "awaiting"
    /\ variant[i] = "logging"
    /\ promise[i].state = "fulfilled"
    /\ console' = [console EXCEPT ![i] = Append(@, [level |-> "log", tag |-> "PERFORMANCE"])]
    /\ result' = [result EXCEPT ![i] =
            [kind |-> "response",
             response |-> [promise[i].value EXCEPT
                              !.headers = (Cache_Control :> no_cache) @@ @]]]
    /\ pc' = [pc EXCEPT ![i] = "done"]
    /\ UNCHANGED <<tables, variant, request, upstream, closestServer, forwarded, promise>>

\* Mutant: the timing record is not emitted.
fetchReturn_NoTiming(i) ==
    /\ pc[i] = "awaiting"
    /\ variant[i] = "logging"
    /\ promise[i].state = "fulfilled"
    /\ result' = [result EXCEPT ![i] = [kind |-> "response", response |-> promise[i].value]]
    /\ pc' = [pc EXCEPT ![i] = "done"]
    /\ UNCHANGED <<tables, variant, request, upstream, closestServer, forwarded,
                   promise, console>>

\* Mutant: the response lives in a module-level variable, so the entry
\* point returns whichever response was fulfilled, its own or another
\* invocation's.
fetchReturn_SharedResponse(i) ==
    /\ pc[i] = "awaiting"
    /\ variant[i] = "logging"
    /\ promise[i].state = "fulfilled"
    /\ console' = [console EXCEPT ![i] = Append(@, [level |-> "log", tag |-> "PERFORMANCE"])]
    /\ \E j \in Ids :
        /\ promise[j].state = "fulfilled"
        /\ result' = [result EXCEPT ![i] = [kind |-> "response", response |-> promise[j].value]]
    /\ pc' = [pc EXCEPT ![i] = "done"]
    /\ UNCHANGED <<tables, variant, request, upstream, closestServer, forwarded, promise>>

\* fetch (logging variant) resumes after the await with a response: the
\* timing record, then the return.  The elapsed milliseconds are not
\* modelled.
fetchReturn(i) ==
    /\ pc[i] = "awaiting"
    /\ variant[i] = "logging"
    /\ promise[i].state = "fulfilled"
    /\ console' = [console EXCEPT ![i] = Append(@, [level |-> "log", tag |-> "PERFORMANCE"])]
    /\ result' = [result EXCEPT ![i] = [kind |-> "response", response |-> promise[i].value]]
    /\ pc' = [pc EXCEPT ![i] = "done"]
    /\ UNCHANGED <<tables, variant, request, upstream, closestServer, forwarded, promise>>

\* Mutant: the catch block logs and rethrows.
fetchCatch_Rethrow(i) ==
    /\ pc[i] = "awaiting"
    /\ variant[i] = "logging"
    /\ promise[i].state = "rejected"
    /\ console' = [console EXCEPT ![i] =
           Append(@, [level |-> "error", tag |-> "ERROR",
                      message |-> promise[i].reason.message, url |-> request[i].url])]
    /\ result' = [result EXCEPT ![i] = [kind |-> "rejected", error |-> promise[i].reason]]
    /\ pc' = [pc EXCEPT ![i] = "done"]
    /\ UNCHANGED <<tables, variant, request, upstream, closestServer, forwarded, promise>>

\* fetch (logging variant) resumes after the await with a rejection: the
\* catch block.
fetchCatch(i) ==
    /\ pc[i] = "awaiting"
    /\ variant[i] = "logging"
    /\ promise[i].state = "rejected"
    /\ LET error == promise[i].reason IN
       /\ console' = [console EXCEPT ![i] =
              Append(@, [level |-> "error", tag |-> "ERROR",
                         message |-> error.message, url |-> request[i].url])]
       /\ result' = [result EXCEPT ![i] =
              [kind |-> "response", response |-> ErrorResponse(error)]]
    /\ pc' = [pc EXCEPT ![i] = "done"]
    /\ UNCHANGED <<tables, variant, request, upstream, closestServer, forwarded, promise>>

\* fetch (plain variant) returned handleRequest's promise: the caller gets
\* its response, or its rejection.
fetchPlain(i) ==
    /\ pc[i] = "awaiting"
    /\ variant[i] = "plain"
    /\ promise[i].state \in {"fulfilled", "rejected"}
    /\ result' = [result EXCEPT ![i] =
            IF promise[i].state = "fulfilled"
            THEN [kind |-> "response", response |-> promise[i].value]
            ELSE [kind |-> "rejected", error |-> promise[i].reason]]
    /\ pc' = [pc EXCEPT ![i] = "done"]
    /\ UNCHANGED <<tables, variant, request, upstream, closestServer, forwarded,
                   promise, console>>

\* The response (or the rejection) has been delivered: nothing of the
\* invocation outlives it.
Discard(i) ==
    /\ pc[i] = "done"
    /\ pc' = [pc EXCEPT ![i] = "idle"]
    /\ request' = [request EXCEPT ![i] = NoRequest]
    /\ upstream' = [upstream EXCEPT ![i] = NoUpstream]
    /\ closestServer' = [closestServer EXCEPT ![i] = NotAssigned]
    /\ forwarded' = [forwarded EXCEPT ![i] = NoRequest]
    /\ promise' = [promise EXCEPT ![i] = NoPromise]
    /\ console' = [console EXCEPT ![i] = <<>>]
    /\ result' = [result EXCEPT ![i] = NoResult]
    /\ UNCHANGED <<tables, variant>>

InitTables ==
    /\ RTMP_SERVERS = RTMP_SERVERS_init
    /\ CONTINENT_TO_REGION = CONTINENT_TO_REGION_init
    /\ COUNTRY_OVERRIDES = COUNTRY_OVERRIDES_init

InitIdle(ids) ==
    /\ pc = [i \in ids |-> "idle"]
    /\ request = [i \in ids |-> NoRequest]
    /\ upstream = [i \in ids |-> NoUpstream]
    /\ closestServer = [i \in ids |-> NotAssigned]
    /\ forwarded = [i \in ids |-> NoRequest]
    /\ promise = [i \in ids |-> NoPromise]
    /\ console = [i \in ids |-> <<>>]
    /\ result = [i \in ids |-> NoResult]

\* One request at a time, handled by both variants side by side.
Init ==
    /\ InitTables
    /\ InitIdle(Variants)
    /\ variant = [v \in Variants |-> v]

Next ==
    \/ ReceivePair
    \/ \E i \in Ids : handleRequest(i)
    \/ \E i \in Ids : handleRequestPlain(i)
    \/ \E i \in Ids : UpstreamSettle(i)
    \/ \E i \in Ids : fetchReturn(i)
    \/ \E i \in Ids : fetchCatch(i)
    \/ \E i \in Ids : fetchPlain(i)
    \/ \E i \in Ids : Discard(i)

Spec == Init /\ [][Next]_vars

\* MaxRequests invocations, each receiving requests independently.
InitConcurrent ==
    /\ InitTables
    /\ InitIdle(1..MaxRequests)
    /\ variant = [i \in 1..MaxRequests |-> "logging"]

NextConcurrent ==
    \/ \E i \in Ids : Receive(i)
    \/ \E i \in Ids : handleRequest(i)
    \/ \E i \in Ids : handleRequestPlain(i)
    \/ \E i \in Ids : UpstreamSettle(i)
    \/ \E i \in Ids : fetchReturn(i)
    \/ \E i \in Ids : fetchCatch(i)
    \/ \E i \in Ids : fetchPlain(i)
    \/ \E i \in Ids : Discard(i)

SpecConcurrent == InitConcurrent /\ [][NextConcurrent]_vars

(***************************************************************************)
(* Vocabulary of the properties.                                           *)
(***************************************************************************)
Done(i) == pc[i] = "done"

\* determineClosestServer has run for invocation i
Resolved(i) == pc[i] \in {"awaiting", "done"} /\ closestServer[i] # NotAssigned

\* v is a string that is a key of the table itself (not one it inherits)
IsKeyOf(table, v) == v.type = "string" /\ v.value \in DOMAIN table

HasGeo(i) == request[i].cf.type = "object"

\* C1: a country that is a key of the Country-Override Table decides the
\* hostname: the Region Table entry of the country's override region,
\* whatever the continent field holds.
C1_OverrideDecides ==
    \A i \in Ids :
        (Resolved(i) /\ HasGeo(i) /\ IsKeyOf(COUNTRY_OVERRIDES, request[i].cf.country))
        => closestServer[i] =
               Str(RTMP_SERVERS[COUNTRY_OVERRIDES[request[i].cf.country.value]])

C1_Witness ==
    \E i \in Ids :
        /\ Resolved(i) /\ HasGeo(i)
        /\ request[i].cf.country = Str(TR)
        /\ request[i].cf.continent = Str(AS)
        /\ CONTINENT_TO_REGION[AS] # COUNTRY_OVERRIDES[TR]
        /\ closestServer[i] = Str(RTMP_SERVERS[europe])

\* C2: with a country that is absent or no key of the Country-Override
\* Table, a continent that is a key of the Continent-to-Region Table decides
\* the hostname: the Region Table entry of the continent's region.
C2_ContinentDecides ==
    \A i \in Ids :
        (/\ Resolved(i) /\ HasGeo(i)
         /\ ~IsKeyOf(COUNTRY_OVERRIDES, request[i].cf.country)
         /\ IsKeyOf(CONTINENT_TO_REGION, request[i].cf.continent))
        => closestServer[i] =
               Str(RTMP_SERVERS[CONTINENT_TO_REGION[request[i].cf.continent.value]])

\* C3: determineClosestServer always yields a hostname, and yields the
\* default hostname when the descriptor is absent or neither its country nor
\* its continent is a key of its table.
C3_TotalWithDefault ==
    \A i \in Ids :
        Resolved(i) =>
            /\ closestServer[i].type = "string"
            /\ (\/ ~HasGeo(i)
                \/ /\ ~IsKeyOf(COUNTRY_OVERRIDES, request[i].cf.country)
                   /\ ~IsKeyOf(CONTINENT_TO_REGION, request[i].cf.continent))
               => closestServer[i] = Str(RTMP_SERVERS[default])

(***************************************************************************)
(* What the input alone says about a request.                              *)
(***************************************************************************)
Parses(i) == NewURL(request[i].url).ok

IsTarget(i) == Parses(i) /\ NewURL(request[i].url).hostname = live_streammy_io

IsOther(i) == Parses(i) /\ NewURL(request[i].url).hostname # live_streammy_io

\* the failure handling the request raises, by cause
MalformedUrl(i) == ~Parses(i)

UpstreamFails(i) == IsOther(i) /\ upstream[i].kind = "failure"

RedirectFault(i) == IsTarget(i) /\ determineClosestServer(request[i]).type # "string"

\* v has a CR or LF somewhere between two characters that are no whitespace
BrokenInside(v) ==
    \E a, n, b \in 1..Len(v) :
        /\ a < n /\ n < b
        /\ v[a] \notin HttpWhitespace /\ v[b] \notin HttpWhitespace
        /\ v[n] \in {"\n", "\r"}

\* the code the logging variant puts in the header for field f
Shown(i, f) ==
    IF HasGeo(i) /\ Truthy(Field(request[i].cf, f))
    THEN Field(request[i].cf, f).value
    ELSE unknown

\* the logging variant's country or continent header is refused
HeaderFault(i) ==
    /\ variant[i] = "logging"
    /\ IsTarget(i) /\ ~RedirectFault(i)
    /\ BrokenInside(Shown(i, "country")) \/ BrokenInside(Shown(i, "continent"))

Fails(i) == MalformedUrl(i) \/ UpstreamFails(i) \/ RedirectFault(i) \/ HeaderFault(i)

\* the message of that failure
FailureMessage(i) ==
    IF MalformedUrl(i) THEN InvalidURLMessage
    ELSE IF UpstreamFails(i) THEN upstream[i].error.message
    ELSE IF RedirectFault(i)
    THEN SplitError(determineClosestServer(request[i])).message
    ELSE HeadersAppend
         \o HeaderValueNormalize(IF BrokenInside(Shown(i, "country"))
                                 THEN Shown(i, "country") ELSE Shown(i, "continent"))
         \o IsAnInvalidHeaderValue

Records(i, tags) == {n \in 1..Len(console[i]) : console[i][n].tag \in tags}

Decisions(i) == Records(i, {"NON-TARGET", "GEO-ROUTING"})

Timings(i) == Records(i, {"PERFORMANCE"})

Errors(i) == Records(i, {"ERROR"})

\* C4: a request for another hostname is forwarded as it came, and the
\* caller gets the origin's response itself: its status, headers and body,
\* nothing added; no hostname is resolved for it.
C4_PassThroughVerbatim ==
    \A i \in Ids :
        (Done(i) /\ IsOther(i) /\ upstream[i].kind = "response")
        => /\ result[i] = [kind |-> "response", response |-> upstream[i].response]
           /\ forwarded[i] = request[i]
           /\ closestServer[i] = NotAssigned

C4_Witness ==
    \E i \in Ids :
        /\ Done(i) /\ variant[i] = "logging"
        /\ request[i].url = url_trailing_dot
        /\ upstream[i].kind = "response"
        /\ upstream[i].response.status = 302
        /\ result[i].response = upstream[i].response

\* C5: a request for the target hostname is answered 302 with an empty
\* body, Cache-Control: no-cache, and Location "https://" + the resolved
\* hostname + the inbound path + the inbound query string (the path and the
\* query the URL parser reads from the inbound URL).
C5_RedirectShape ==
    \A i \in Ids :
        (Done(i) /\ IsTarget(i))
        => /\ result[i].kind = "response"
           /\ result[i].response.status = 302
           /\ result[i].response.body = Null
           /\ result[i].response.headers[Cache_Control] = no_cache
           /\ result[i].response.headers[Location] =
                  https_scheme \o JSToString(determineClosestServer(request[i]))
                  \o NewURL(request[i].url).pathname
                  \o NewURL(request[i].url).search

\* C6 (logging variant): a failure raised while handling never reaches the
\* caller: it becomes a 500 text/plain response whose body carries the
\* error message, with one error record logged; every request ends as
\* exactly one of redirect, forwarded origin response, or that 500.
C6_FailuresBecome500 ==
    \A i \in Ids :
        (Done(i) /\ variant[i] = "logging")
        => /\ result[i].kind = "response"
           /\ Fails(i) =>
                /\ result[i].response.status = 500
                /\ result[i].response.headers = (Content_Type :> text_plain)
                /\ result[i].response.body = Str(InternalServerError \o FailureMessage(i))
                /\ Cardinality(Errors(i)) = 1
                /\ \A n \in Errors(i) : console[i][n].message = FailureMessage(i)
           /\ ~Fails(i) =>
                /\ Errors(i) = {}
                /\ IsTarget(i) =>
                      /\ result[i].response.status = 302
                      /\ Location \in DOMAIN result[i].response.headers
                /\ IsOther(i) => result[i].response = upstream[i].response

C6_Witness ==
    \E i \in Ids :
        /\ Done(i) /\ variant[i] = "logging"
        /\ UpstreamFails(i)
        /\ result[i].kind = "response"
        /\ result[i].response.status = 500
        /\ Len(console[i]) = 2

\* C7 as stated: on every path, failure included, one decision record and
\* one timing record, the decision record first.
C7_OneDecisionOneTiming ==
    \A i \in Ids :
        (Done(i) /\ variant[i] = "logging")
        => /\ Cardinality(Decisions(i)) = 1
           /\ Cardinality(Timings(i)) = 1
           /\ \A d \in Decisions(i), t \in Timings(i) : d < t

\* C7 (amended, logging variant): when handling raises no failure the
\* records are exactly one decision record followed by one timing record,
\* both emitted before the response is returned; when it raises a failure
\* there is no timing record, at most one decision record (the [NON-TARGET]
\* one of a forward whose origin failed, the [GEO-ROUTING] one of a redirect
\* whose header was refused) and then one error record.
C7_RecordsPerPath ==
    \A i \in Ids :
        (Done(i) /\ variant[i] = "logging")
        => /\ ~Fails(i) =>
                /\ Len(console[i]) = 2
                /\ Decisions(i) = {1}
                /\ Timings(i) = {2}
                /\ console[i][1].tag = (IF IsTarget(i) THEN "GEO-ROUTING" ELSE "NON-TARGET")
           /\ Fails(i) =>
                /\ Timings(i) = {}
                /\ Errors(i) = {Len(console[i])}
                /\ Decisions(i) = (IF UpstreamFails(i) \/ HeaderFault(i) THEN {1} ELSE {})
                /\ Len(console[i]) = (IF UpstreamFails(i) \/ HeaderFault(i) THEN 2 ELSE 1)
                /\ \A d \in Decisions(i) :
                      console[i][d].tag = (IF UpstreamFails(i) THEN "NON-TARGET"
                                           ELSE "GEO-ROUTING")

C7_Witness ==
    \E i \in Ids :
        /\ Done(i) /\ variant[i] = "logging"
        /\ IsTarget(i) /\ ~Fails(i)
        /\ console[i][1].tag = "GEO-ROUTING"
        /\ console[i][2].tag = "PERFORMANCE"
        /\ result[i].response.status = 302

\* the hostname of an https:// URL without port: what lies between the
\* scheme and the first "/"
HostOfLocation(loc) ==
    LET rest == SubSeq(loc, Len(https_scheme) + 1, Len(loc))
        slash == IndexOf(rest, "/")
    IN  IF slash = 0 THEN rest ELSE SubSeq(rest, 1, slash - 1)

BeforeFirstDot(s) ==
    IF \E n \in 1..Len(s) : s[n] = "."
    THEN SubSeq(s, 1, (CHOOSE n \in 1..Len(s) :
                          s[n] = "." /\ \A m \in 1..(n - 1) : s[m] # ".") - 1)
    ELSE s

\* the header value the claim asks for a detected code
CodeOrSentinel(i, f, value) ==
    /\ (~HasGeo(i) \/ Field(request[i].cf, f) = Undefined) => value = unknown
    /\ (HasGeo(i) /\ Field(request[i].cf, f).type = "string"
           /\ Field(request[i].cf, f).value # <<>>)
       => value = Field(request[i].cf, f).value

\* h is c without the whitespace at its two ends
IsTrimOf(h, c) ==
    \E a, b \in 0..Len(c) :
        /\ a + Len(h) + b = Len(c)
        /\ \A n \in 1..Len(h) : h[n] = c[a + n]
        /\ \A n \in 1..a : c[n] \in HttpWhitespace
        /\ \A n \in (Len(c) - b + 1)..Len(c) : c[n] \in HttpWhitespace
        /\ h # <<>> => (h[1] \notin HttpWhitespace /\ h[Len(h)] \notin HttpWhitespace)

\* the header value for a detected code as a header can carry it
TrimmedCodeOrSentinel(i, f, value) ==
    IF HasGeo(i) /\ Field(request[i].cf, f).type = "string"
       /\ Field(request[i].cf, f).value # <<>>
    THEN IsTrimOf(value, Field(request[i].cf, f).value)
    ELSE value = unknown

\* the redirect the logging variant built for invocation i has been returned
Redirected(i) ==
    /\ Done(i) /\ variant[i] = "logging"
    /\ IsTarget(i)
    /\ result[i].kind = "response"
    /\ result[i].response.status = 302

\* C8 as stated: on a redirect the region header is the part of the
\* Location hostname before its first ".", the country and continent headers
\* equal the detected codes, or "unknown" when absent, and the hostname is
\* the one resolved from the descriptor as it came.
C8_CodesAsDetected ==
    \A i \in Ids :
        Redirected(i) =>
            LET h == result[i].response.headers IN
            /\ h[X_Streammy_Region] = BeforeFirstDot(HostOfLocation(h[Location]))
            /\ CodeOrSentinel(i, "country", h[X_Streammy_Country])
            /\ CodeOrSentinel(i, "continent", h[X_Streammy_Continent])
            /\ Str(HostOfLocation(h[Location])) = determineClosestServer(request[i])

\* C8 (amended, logging variant): on a redirect the region header is the
\* part of the Location hostname before its first ".", the country and
\* continent headers are the detected codes without the whitespace at their
\* ends, or "unknown" when absent or empty, and the hostname is the one
\* resolved from the descriptor as it came, sentinel or not.
C8_DiagnosticHeaders ==
    \A i \in Ids :
        Redirected(i) =>
            LET h == result[i].response.headers IN
            /\ h[X_Streammy_Region] = BeforeFirstDot(HostOfLocation(h[Location]))
            /\ TrimmedCodeOrSentinel(i, "country", h[X_Streammy_Country])
            /\ TrimmedCodeOrSentinel(i, "continent", h[X_Streammy_Continent])
            /\ Str(HostOfLocation(h[Location])) = determineClosestServer(request[i])

C8_Witness ==
    \E i \in Ids :
        /\ Redirected(i) /\ HasGeo(i)
        /\ request[i].cf.country = Str(FR_padded)
        /\ request[i].cf.continent = Str(OC)
        /\ result[i].response.headers[X_Streammy_Country] = FR
        /\ result[i].response.headers[X_Streammy_Continent] = OC
        /\ result[i].response.headers[X_Streammy_Region] = <<"e", "u">>

\* what the caller gets for invocation i's request when it is handled with
\* nothing else in flight
AloneResult(i) ==
    IF Fails(i)
    THEN IF variant[i] = "logging"
         THEN [kind |-> "response",
               response |-> ErrorResponse(TypeError(FailureMessage(i)))]
         ELSE [kind |-> "rejected", error |-> TypeError(FailureMessage(i))]
    ELSE IF IsOther(i)
    THEN [kind |-> "response", response |-> upstream[i].response]
    ELSE LET url    == NewURL(request[i].url)
             server == determineClosestServer(request[i])
         IN  [kind |-> "response",
              response |-> IF variant[i] = "logging"
                           THEN RedirectResponse(server, url, LogData(request[i], url)).response
                           ELSE RedirectResponsePlain(server, url).response]

\* C9: handling is stateless and independent of interleaving: the three
\* tables stay as initialised, every finished invocation got what its
\* request gets when handled alone, whatever else was in flight, and two
\* invocations of the same input got the same hostname and response.
C9_Independent ==
    /\ RTMP_SERVERS = RTMP_SERVERS_init
    /\ CONTINENT_TO_REGION = CONTINENT_TO_REGION_init
    /\ COUNTRY_OVERRIDES = COUNTRY_OVERRIDES_init
    /\ \A i \in Ids : Done(i) => result[i] = AloneResult(i)
    /\ \A i, j \in Ids :
        (/\ Done(i) /\ Done(j)
         /\ request[i] = request[j]
         /\ upstream[i] = upstream[j]
         /\ variant[i] = variant[j])
        => /\ result[i] = result[j]
           /\ closestServer[i] = closestServer[j]

\* one invocation finished while another was suspended on its origin
C9_Witness ==
    \E i, j \in Ids :
        /\ i # j
        /\ Done(i) /\ variant[i] = "logging" /\ IsTarget(i)
        /\ result[i].kind = "response"
        /\ pc[j] = "awaiting" /\ variant[j] = "logging"
        /\ promise[j] = Pending

\* the headers both variants set
SharedHeaders == {Location, Cache_Control, X_Streammy_Region}

SameShared(a, b) ==
    /\ a.status = b.status
    /\ a.body = b.body
    /\ \A h \in SharedHeaders :
        /\ (h \in DOMAIN a.headers) = (h \in DOMAIN b.headers)
        /\ h \in DOMAIN a.headers => a.headers[h] = b.headers[h]

\* C10 as stated: for every request and origin behaviour, failures
\* included, the two variants deliver the same outcome.
C10_SameOutcome ==
    (Done("logging") /\ Done("plain"))
    => /\ result["logging"].kind = result["plain"].kind
       /\ result["logging"].kind = "response"
          => SameShared(result["logging"].response, result["plain"].response)

\* C10 (amended): when neither variant's handling raises a failure both
\* deliver the same response, the logging variant's carrying in addition
\* only the country and continent headers on a redirect; when both raise a
\* failure the logging variant answers 500 with the error's message while
\* the plain variant lets the same error reach the caller; when only the
\* logging variant's country or continent header is refused it answers 500
\* while the plain variant delivers the redirect.
C10_SameUnlessFailure ==
    (Done("logging") /\ Done("plain"))
    => /\ ~Fails("logging") =>
            /\ result["logging"].kind = "response"
            /\ result["plain"].kind = "response"
            /\ SameShared(result["logging"].response, result["plain"].response)
            /\ DOMAIN result["logging"].response.headers \ DOMAIN result["plain"].response.headers
                   = (IF IsTarget("logging")
                      THEN {X_Streammy_Country, X_Streammy_Continent} ELSE {})
            /\ \A h \in DOMAIN result["plain"].response.headers :
                   result["logging"].response.headers[h] = result["plain"].response.headers[h]
       /\ (Fails("logging") /\ ~HeaderFault("logging")) =>
            /\ result["plain"].kind = "rejected"
            /\ result["plain"].error.message = FailureMessage("plain")
            /\ result["logging"] =
                   [kind |-> "response", response |-> ErrorResponse(result["plain"].error)]
       /\ HeaderFault("logging") =>
            /\ result["logging"] =
                   [kind |-> "response",
                    response |-> ErrorResponse(TypeError(FailureMessage("logging")))]
            /\ result["plain"].kind = "response"
            /\ result["plain"].response.status = 302
            /\ result["plain"].response.body = Null
            /\ DOMAIN result["plain"].response.headers = SharedHeaders
            /\ result["plain"].response.headers[Location] =
                   https_scheme \o determineClosestServer(request["plain"]).value
                   \o NewURL(request["plain"].url).pathname
                   \o NewURL(request["plain"].url).search

\* a malformed URL: the logging variant answered 500, the plain variant's
\* TypeError reached the caller
C10_Witness ==
    /\ Done("logging") /\ Done("plain")
    /\ request["plain"] = request["logging"]
    /\ MalformedUrl("logging")
    /\ result["logging"].kind = "response"
    /\ result["logging"].response.status = 500
    /\ result["plain"].kind = "rejected"
    /\ result["plain"].error = TypeError(InvalidURLMessage)

====
